---- MODULE Spec2Model ----
(***************************************************************************)
(* Fraud-scoring pipeline of the AI service                                *)
(* (src/ai-service/services/fraud_detection_service.py), the endpoints     *)
(* that drive it (src/ai-service/main.py), the chat sessions of            *)
(* src/ai-service/services/chatbot_service.py and the retrain endpoint.    *)
(*                                                                         *)
(* Reals are fixed-point integers: the real x is the integer x * One.      *)
(* The inputs enumerated below are amounts that are multiples of 100,      *)
(* whole hours and weekdays, longitudes that are multiples of 18 and       *)
(* scores that are multiples of 1/20;  One is a common multiple of the     *)
(* denominators these give (100, 24, 7, 10, 20), so every value the       *)
(* code computes from them is represented exactly and every comparison     *)
(* with a threshold has the outcome it has in the code.                    *)
(***************************************************************************)
EXTENDS Integers, Sequences, FiniteSets, TLC

VARIABLES
    is_initialized,    \* FraudDetectionService.is_initialized
    isolation_forest,  \* FraudDetectionService.isolation_forest
    random_forest,     \* FraudDetectionService.random_forest
    scaler,            \* FraudDetectionService.scaler
    redis_client,      \* FraudDetectionService.redis_client (set or not)
    artifacts,         \* models/*.pkl on disk: artifact name -> generation, 0 = no file
    trainings,         \* number of training generations created so far
    initCalls,         \* number of initialize() calls made so far
    store_up,          \* the Redis server accepts connections (environment)
    counters,          \* store keys user_transactions:{user_id}: <<>> or <<count>>
    cache,             \* store keys fraud_analysis:{transaction_id}: <<>> or <<entry>>
    phase,             \* position of the /fraud/detect handler
    req,               \* the request being handled: <<>> or <<request>>
    result,            \* what analyze_transaction returned: <<>> or <<assessment>>
    call,              \* what the last analyze_transaction call did (observation)
    chatbot_initialized, \* ChatbotService.is_initialized, with openai_client set
    chat_sessions,     \* store keys chat_session:{session_id}: <<>> or <<entry>>
    chat_calls,        \* position of each process_message call in flight
    chat_completed,    \* per session id, the process_message calls that returned normally
    retrain            \* the /models/retrain request and its response (observation)

vars == <<is_initialized, isolation_forest, random_forest, scaler, redis_client,
          artifacts, trainings, initCalls, store_up, counters, cache, phase, req, result,
          call, chatbot_initialized, chat_sessions, chat_calls, chat_completed, retrain>>

chatbot == <<chatbot_initialized, chat_sessions, chat_calls, chat_completed>>

service == <<is_initialized, isolation_forest, random_forest, scaler, redis_client,
             artifacts, trainings, initCalls>>

---------------------------------------------------------------------------
(* Fixed-point unit and bounds                                             *)

One == 100 * 6 * 7

\* Largest stored transaction count an external writer produces.
MaxCount == 10
\* initialize() calls in one behaviour.
MaxInitCalls == 2

Max(a, b) == IF a >= b THEN a ELSE b
Min(a, b) == IF a <= b THEN a ELSE b
Abs(a) == IF a < 0 THEN -a ELSE a

---------------------------------------------------------------------------
(* Model objects                                                           *)

ArtifactNames == {"isolation_forest", "random_forest", "scaler"}

\* Python None for a model attribute.
NoModel == [set |-> FALSE, fitted |-> FALSE, gen |-> 0, loaded |-> FALSE]
\* An estimator object created by its constructor, before fit().
NewModel(g) == [set |-> TRUE, fitted |-> FALSE, gen |-> g, loaded |-> FALSE]
\* The same object after fit().
FittedModel(g) == [set |-> TRUE, fitted |-> TRUE, gen |-> g, loaded |-> FALSE]
\* joblib.load of an artifact dumped by generation g (dumped after fit).
LoadedModel(g) == [set |-> TRUE, fitted |-> TRUE, gen |-> g, loaded |-> TRUE]

\* IsolationForest.offset_ of a fitted forest: a negative score quantile.
Offset == -((4 * One) \div 10)

---------------------------------------------------------------------------
(* Frequency risk estimator                                                *)

\* Variant: a stored count of zero is taken for a missing counter.
count_zero_is_missing(stored) == IF stored # <<>> /\ stored[1] # 0 THEN stored[1] ELSE 5

\* int(recent_transactions) if the key holds a value, else the default 5.
\* redis returns a string, and any non-empty string is true, "0" included.
transaction_count(stored) == IF stored # <<>> THEN stored[1] ELSE 5

\* _calculate_frequency_risk: getFails is redis_client.get raising.
calculate_frequency_risk(stored, getFails) ==
    IF getFails
    THEN (5 * One) \div 10
    ELSE IF transaction_count(stored) < 3 THEN (8 * One) \div 10
         ELSE IF transaction_count(stored) < 10 THEN (4 * One) \div 10
              ELSE (2 * One) \div 10

\* Variant: the except clause is missing and the store's exception leaves.
frequency_risk_reraises(getFails) == getFails

\* _calculate_frequency_risk runs the lookup inside try/except Exception and
\* returns from the handler: no exception of the store leaves it.
frequency_risk_raises(getFails) == FALSE

---------------------------------------------------------------------------
(* Feature extractor                                                       *)

\* amount_normalized = min(amount / 10000, 1.0)
amount_normalized(amount) == Min((amount * One) \div 10000, One)

\* Variant: the location risk is capped at 1.0 like the device risk.
location_risk_clamped(location) ==
    IF location # <<>>
    THEN Min(One, Abs(location[1]) * One + (Abs(location[2]) * One) \div 180)
    ELSE (5 * One) \div 10

\* location_risk: 0.5 unless a (non-empty) location is given.
location_risk(location) ==
    IF location # <<>>
    THEN Abs(location[1]) * One + (Abs(location[2]) * One) \div 180
    ELSE (5 * One) \div 10

\* Variant: the three flags are tested in an if/elif chain.
device_risk_first_flag_only(device_info) ==
    IF device_info # <<>>
    THEN (5 * One) \div 10
         + (IF "is_mobile" \in device_info[1] THEN (1 * One) \div 10
            ELSE IF "is_tor" \in device_info[1] THEN (3 * One) \div 10
                 ELSE IF "is_vpn" \in device_info[1] THEN (2 * One) \div 10 ELSE 0)
    ELSE (5 * One) \div 10

\* device_risk before the final min(device_risk, 1.0).
device_risk(device_info) ==
    IF device_info # <<>>
    THEN (5 * One) \div 10
         + (IF "is_mobile" \in device_info[1] THEN (1 * One) \div 10 ELSE 0)
         + (IF "is_tor" \in device_info[1] THEN (3 * One) \div 10 ELSE 0)
         + (IF "is_vpn" \in device_info[1] THEN (2 * One) \div 10 ELSE 0)
    ELSE (5 * One) \div 10

\* _extract_features: now = <<hour, weekday>> is datetime.now(), rnd the two
\* np.random.uniform draws, stored the value under user_transactions:{user_id}.
extract_features(r, now, rnd, stored, getFails) ==
    << amount_normalized(r.amount[1]),
       (now[1] * One) \div 24,
       (now[2] * One) \div 7,
       location_risk(r.location),
       Min(device_risk(r.device_info), One),
       calculate_frequency_risk(stored, getFails),
       rnd[1],
       rnd[2] >>

---------------------------------------------------------------------------
(* Scoring, fusion, tiering, explanation                                   *)

\* (decision_function - offset_) / abs(offset_), then max(0, min(1, .)).
normalized_anomaly(raw) == ((raw - Offset) * One) \div Abs(Offset)
\* Variant: the normalized value is not clamped.
unclamped(x) == x
clamp01(x) == Max(0, Min(One, x))
anomaly_score_of(raw) == clamp01(normalized_anomaly(raw))

\* Variant: a transaction that already has a cached analysis is rated 1.0.
combined_flags_repeats(anomaly_score, fraud_probability) ==
    IF /\ req[1].transaction_id # <<>>
       /\ cache[req[1].transaction_id[1]] # <<>>
    THEN One
    ELSE (4 * anomaly_score + 6 * fraud_probability) \div 10

\* Variant: the two weights are exchanged.
combined_weights_swapped(anomaly_score, fraud_probability) ==
    (6 * anomaly_score + 4 * fraud_probability) \div 10

\* combined_score = anomaly_score * 0.4 + fraud_probability * 0.6
combined_score_of(anomaly_score, fraud_probability) ==
    (4 * anomaly_score + 6 * fraud_probability) \div 10

\* self.fraud_thresholds
fraud_thresholds ==
    [low |-> (3 * One) \div 10, medium |-> (6 * One) \div 10, high |-> (8 * One) \div 10]

\* Variant: the thresholds are exclusive.
risk_level_exclusive(fraud_score) ==
    IF fraud_score > fraud_thresholds.high THEN "high"
    ELSE IF fraud_score > fraud_thresholds.medium THEN "medium"
         ELSE "low"

determine_risk_level(fraud_score) ==
    IF fraud_score >= fraud_thresholds.high THEN "high"
    ELSE IF fraud_score >= fraud_thresholds.medium THEN "medium"
         ELSE "low"

IfReason(cond, msg) == IF cond THEN <<msg>> ELSE <<>>

\* Variant: the device, frequency and anomaly thresholds are inclusive and
\* the upper hour bound is inclusive.
reasons_inclusive(features, anomaly_score, fraud_probability) ==
    LET amount == features[1] * 10000
        hour == features[2] * 24
        reasons ==
            IfReason(amount > 5000 * One, "High transaction amount")
            \o IfReason(hour < 6 * One \/ hour >= 22 * One, "Unusual transaction time")
            \o IfReason(features[4] > (8 * One) \div 10, "High-risk location")
            \o IfReason(features[5] >= (7 * One) \div 10, "Suspicious device characteristics")
            \o IfReason(features[6] >= (7 * One) \div 10, "Unusual transaction frequency")
            \o IfReason(anomaly_score >= (7 * One) \div 10,
                        "Transaction pattern anomaly detected")
            \o IfReason(fraud_probability > (6 * One) \div 10,
                        "High fraud probability based on historical data")
    IN IF reasons = <<>> THEN <<"Standard risk assessment">> ELSE reasons

\* Variant: the default reason is appended to every list.
reasons_default_always(features, anomaly_score, fraud_probability) ==
    LET amount == features[1] * 10000
        hour == features[2] * 24
    IN IfReason(amount > 5000 * One, "High transaction amount")
       \o IfReason(hour < 6 * One \/ hour > 22 * One, "Unusual transaction time")
       \o IfReason(features[4] > (8 * One) \div 10, "High-risk location")
       \o IfReason(features[5] > (7 * One) \div 10, "Suspicious device characteristics")
       \o IfReason(features[6] > (7 * One) \div 10, "Unusual transaction frequency")
       \o IfReason(anomaly_score > (7 * One) \div 10,
                   "Transaction pattern anomaly detected")
       \o IfReason(fraud_probability > (6 * One) \div 10,
                   "High fraud probability based on historical data")
       \o <<"Standard risk assessment">>

generate_fraud_reasons(features, anomaly_score, fraud_probability) ==
    LET amount == features[1] * 10000
        hour == features[2] * 24
        reasons ==
            IfReason(amount > 5000 * One, "High transaction amount")
            \o IfReason(hour < 6 * One \/ hour > 22 * One, "Unusual transaction time")
            \o IfReason(features[4] > (8 * One) \div 10, "High-risk location")
            \o IfReason(features[5] > (7 * One) \div 10, "Suspicious device characteristics")
            \o IfReason(features[6] > (7 * One) \div 10, "Unusual transaction frequency")
            \o IfReason(anomaly_score > (7 * One) \div 10,
                        "Transaction pattern anomaly detected")
            \o IfReason(fraud_probability > (6 * One) \div 10,
                        "High fraud probability based on historical data")
    IN IF reasons = <<>> THEN <<"Standard risk assessment">> ELSE reasons

\* Variant: a long list of reasons escalates a low tier.
recommendation_by_reasons(risk_level, reasons) ==
    IF risk_level = "high" THEN "Block transaction and require manual review"
    ELSE IF risk_level = "medium" \/ Len(reasons) >= 4
         THEN "Require additional verification (2FA, SMS)"
         ELSE "Approve transaction with standard monitoring"

generate_recommendation(risk_level, reasons) ==
    IF risk_level = "high" THEN "Block transaction and require manual review"
    ELSE IF risk_level = "medium" THEN "Require additional verification (2FA, SMS)"
         ELSE "Approve transaction with standard monitoring"

\* Variant: the combined score is reported as the confidence.
confidence_combined(anomaly_score, fraud_probability) ==
    (4 * anomaly_score + 6 * fraud_probability) \div 10

\* Variant: the classifier's probability alone is the confidence.
confidence_classifier_only(anomaly_score, fraud_probability) == fraud_probability

\* confidence = max(anomaly_score, fraud_probability)
confidence_of(anomaly_score, fraud_probability) == Max(anomaly_score, fraud_probability)

\* The dict returned from the try block.
normal_assessment(features, anomaly_score, fraud_probability) ==
    LET combined_score == combined_score_of(anomaly_score, fraud_probability)
        risk_level == determine_risk_level(combined_score)
        reasons == generate_fraud_reasons(features, anomaly_score, fraud_probability)
    IN [fraud_score |-> combined_score,
        risk_level |-> risk_level,
        reasons |-> reasons,
        recommendation |-> generate_recommendation(risk_level, reasons),
        confidence |-> confidence_of(anomaly_score, fraud_probability)]

\* Variant: the handler reports the score computed before the exception.
default_with_partial_score(features, anomaly_score, fraud_probability) ==
    [fraud_score |-> (4 * anomaly_score + 6 * fraud_probability) \div 10,
     risk_level |-> "medium",
     reasons |-> <<"Unable to analyze transaction">>,
     recommendation |-> "Manual review recommended",
     confidence |-> 0]

\* The dict returned from the except block; its parameters are the locals of
\* the try block that were assigned before the exception.
default_assessment(features, anomaly_score, fraud_probability) ==
    [fraud_score |-> (5 * One) \div 10,
     risk_level |-> "medium",
     reasons |-> <<"Unable to analyze transaction">>,
     recommendation |-> "Manual review recommended",
     confidence |-> 0]

---------------------------------------------------------------------------
(* initialize, _load_models, _train_models                                 *)

\* The statements of _train_models that can raise, in program order.
train_steps ==
    <<"generate", "fit_iso", "fit_rf", "fit_scaler", "dump_iso", "dump_rf", "dump_scaler">>

StepOf(steps, s) == CHOOSE i \in 1..Len(steps) : steps[i] = s

\* Position of the raising statement; past the end when nothing raises.
FailIndex(steps, fail) == IF fail = "none" THEN Len(steps) + 1 ELSE StepOf(steps, fail)

TrainFails == {"none"} \cup {train_steps[i] : i \in 1..Len(train_steps)}

\* An attribute assigned by `self.x = Estimator(...)` right before statement
\* fitStep, which is x.fit(...): unchanged if training raised earlier, a new
\* unfitted object if fit raised, the fitted object otherwise.
trained_attr(old, g, fail, fitStep) ==
    IF FailIndex(train_steps, fail) < StepOf(train_steps, fitStep) THEN old
    ELSE IF FailIndex(train_steps, fail) = StepOf(train_steps, fitStep) THEN NewModel(g)
         ELSE FittedModel(g)

\* joblib.dump at statement dumpStep writes the file if it is reached and
\* does not raise.
dumped_file(old, g, fail, dumpStep) ==
    IF FailIndex(train_steps, fail) > StepOf(train_steps, dumpStep) THEN g ELSE old

\* Variant: _train_models logs the exception and returns normally.
train_models_swallows(m, g, fail) ==
    [iso |-> trained_attr(m.iso, g, fail, "fit_iso"),
     rf |-> trained_attr(m.rf, g, fail, "fit_rf"),
     sc |-> trained_attr(m.sc, g, fail, "fit_scaler"),
     art |-> [n \in ArtifactNames |->
                 dumped_file(m.art[n], g, fail,
                             IF n = "isolation_forest" THEN "dump_iso"
                             ELSE IF n = "random_forest" THEN "dump_rf"
                                  ELSE "dump_scaler")],
     ok |-> TRUE,
     runs |-> m.runs + 1]

\* feature_vector of _generate_synthetic_data for a transaction of the given
\* amount, hour and weekday: the three are stored as drawn, followed by the
\* five values drawn from [0, 1].
synthetic_feature_vector(amount, hour, day_of_week, risks) ==
    <<amount * One, hour * One, day_of_week * One>> \o risks

\* The argument of isolation_forest.fit and random_forest.fit: X_train as
\* generated.  The scaler is fitted after the two and transforms nothing in
\* _train_models; 0 stands for no scaler where transform puts the
\* generation of the scaler.
fit_input(X_train) == <<0, X_train>>

\* _train_models run on state m = [iso, rf, sc, art, ok, runs] as generation g.
train_models(m, g, fail) ==
    [iso |-> trained_attr(m.iso, g, fail, "fit_iso"),
     rf |-> trained_attr(m.rf, g, fail, "fit_rf"),
     sc |-> trained_attr(m.sc, g, fail, "fit_scaler"),
     art |-> [n \in ArtifactNames |->
                 dumped_file(m.art[n], g, fail,
                             IF n = "isolation_forest" THEN "dump_iso"
                             ELSE IF n = "random_forest" THEN "dump_rf"
                                  ELSE "dump_scaler")],
     ok |-> fail = "none",
     runs |-> m.runs + 1]

\* The statements of the try block of _load_models that can raise before the
\* else branch, in program order.
load_steps == <<"makedirs", "load_iso", "load_rf", "load_scaler">>

LoadFails == {"none"} \cup {load_steps[i] : i \in 1..Len(load_steps)}

all_artifacts_exist(art) == \A n \in ArtifactNames : art[n] # 0

\* The three joblib.load assignments, cut short by the one that raises.
loaded_attr(old, g, loadFail, loadStep) ==
    IF FailIndex(load_steps, loadFail) > StepOf(load_steps, loadStep)
    THEN LoadedModel(g) ELSE old

\* _load_models: loadFail is the statement of the try block that raises,
\* fail1 the outcome of the training called from the else branch, fail2 the
\* outcome of the training called from the except block.
load_models(m, g, loadFail, fail1, fail2) ==
    IF loadFail = "makedirs"
    THEN train_models(m, g + 1, fail2)
    ELSE IF all_artifacts_exist(m.art)
         THEN LET l == [m EXCEPT
                           !.iso = loaded_attr(m.iso, m.art["isolation_forest"],
                                               loadFail, "load_iso"),
                           !.rf = loaded_attr(m.rf, m.art["random_forest"],
                                              loadFail, "load_rf"),
                           !.sc = loaded_attr(m.sc, m.art["scaler"],
                                              loadFail, "load_scaler"),
                           !.ok = TRUE]
              IN IF loadFail = "none" THEN l ELSE train_models(l, g + 1, fail2)
         ELSE LET t == train_models(m, g + 1, fail1)
              IN IF t.ok THEN t ELSE train_models(t, g + 2, fail2)

is_ready == is_initialized /\ isolation_forest.set

\* _load_models run on the service as it is.
loaded_or_trained(loadFail, fail1, fail2) ==
    load_models([iso |-> isolation_forest, rf |-> random_forest, sc |-> scaler,
                 art |-> artifacts, ok |-> FALSE, runs |-> 0],
                trainings, loadFail, fail1, fail2)

\* Whether initialize() raises: the redis.Redis(...) construction raises
\* (REDIS_PORT not a number) or _load_models does.  redis.Redis(...) only
\* builds a client with a lazy connection pool: it opens no connection, and
\* initialize() sends no command, so the server being down raises nothing.
initialize_raises(redisFails, loadFail, fail1, fail2) ==
    redisFails \/ ~loaded_or_trained(loadFail, fail1, fail2).ok

\* The body of initialize(): what it assigns before it returns or re-raises.
initialize(redisFails, loadFail, fail1, fail2) ==
    /\ initCalls' = initCalls + 1
    /\ IF redisFails
       THEN UNCHANGED <<is_initialized, isolation_forest, random_forest, scaler,
                        redis_client, artifacts, trainings>>
       ELSE LET m == loaded_or_trained(loadFail, fail1, fail2)
            IN /\ redis_client' = TRUE
               /\ isolation_forest' = m.iso
               /\ random_forest' = m.rf
               /\ scaler' = m.sc
               /\ artifacts' = m.art
               /\ trainings' = trainings + m.runs
               /\ is_initialized' = (is_initialized \/ m.ok)

\* A call of initialize() on the running service.
Initialize(redisFails, loadFail, fail1, fail2) ==
    /\ phase = "idle"
    /\ initCalls < MaxInitCalls
    /\ initialize(redisFails, loadFail, fail1, fail2)
    /\ UNCHANGED <<store_up, counters, cache, phase, req, result, call>>
    /\ UNCHANGED <<chatbot, retrain>>

---------------------------------------------------------------------------
(* analyze_transaction                                                     *)

\* Variant: the result is cached before the reasons are generated.
analyze_steps_cache_early ==
    <<"ready", "extract", "scale", "anomaly", "classifier", "fusion", "tier",
      "cache", "reasons", "recommend", "return">>

\* Variant: the readiness check runs after the features are extracted.
analyze_steps_ready_late ==
    <<"extract", "ready", "scale", "anomaly", "classifier", "fusion", "tier",
      "reasons", "recommend", "cache", "return">>

\* The statements of the try block of analyze_transaction, in program order.
analyze_steps ==
    <<"ready", "extract", "scale", "anomaly", "classifier", "fusion", "tier",
      "reasons", "recommend", "cache", "return">>

\* Exceptions raised by library calls or by unexpected values at a statement
\* (non-finite input to the scaler, an incompatible loaded artifact, ...).
Faults == {"none", "scale", "anomaly", "classifier", "fusion", "tier", "reasons",
           "recommend"}

usable(model) == model.set /\ model.fitted

\* _cache_analysis_result runs setex inside try/except Exception and only
\* logs in the handler: no exception of the store leaves it.
cache_result_raises(transaction_id, setFails) == FALSE

\* Whether statement s raises on request r.
step_raises(s, r, fault, getFails, setFails) ==
    CASE s = "ready" -> ~is_ready
      [] s = "extract" -> r.amount = <<>> \/ frequency_risk_raises(getFails)
      [] s = "scale" -> ~usable(scaler) \/ fault = "scale"
      [] s = "anomaly" -> ~usable(isolation_forest) \/ fault = "anomaly"
      [] s = "classifier" -> ~usable(random_forest) \/ fault = "classifier"
      [] s = "cache" -> cache_result_raises(r.transaction_id, setFails)
      [] s = "return" -> FALSE
      [] OTHER -> fault = s

\* The first statement that raises, in the order the try block runs them.
raised_at(r, fault, getFails, setFails) ==
    IF \E i \in 1..Len(analyze_steps) :
          step_raises(analyze_steps[i], r, fault, getFails, setFails)
    THEN analyze_steps[CHOOSE i \in 1..Len(analyze_steps) :
                          /\ step_raises(analyze_steps[i], r, fault, getFails, setFails)
                          /\ \A j \in 1..(i - 1) :
                                ~step_raises(analyze_steps[j], r, fault, getFails,
                                             setFails)]
    ELSE "none"

\* Statement s ran to completion before the exception, if any, was raised.
completed(s, raisedAt) ==
    raisedAt = "none" \/ StepOf(analyze_steps, s) < StepOf(analyze_steps, raisedAt)

\* Statement s was started.
started(s, raisedAt) ==
    raisedAt = "none" \/ StepOf(analyze_steps, s) <= StepOf(analyze_steps, raisedAt)

\* Variant: the scaler is refitted on the request (fit_transform).
fit_transform(sc, features) ==
    [scaler |-> FittedModel(sc.gen), scaled |-> <<sc.gen, features>>]

\* features_scaled = self.scaler.transform([features]): the scaler after the
\* call and the vector it returns, which depends on the fitted scaler.
transform(sc, features) == [scaler |-> sc, scaled |-> <<sc.gen, features>>]

\* Time-to-live of a cached analysis, in seconds.
CacheTTL == 86400

\* The store keys the handler uses.
counter_key(user_id) == <<"user_transactions", user_id>>
analysis_key(transaction_id) == <<"fraud_analysis", transaction_id>>

\* Whether the double computed by anomaly_score * 0.4 + fraud_probability * 0.6
\* is greater than max(anomaly_score, fraud_probability) although the exact
\* mean is not: the two products are rounded before they are added.  Of the
\* scores enumerated below (anomaly 0, 0.6, 0.7, 0.75, 0.8, 0.9, 1 and
\* probability 0, 0.6, 0.65, 0.8, 0.9, 1) it happens for the pair 0.9, 0.9
\* only: 0.36000000000000004 + 0.54 = 0.9000000000000001.
fusion_rounds_above(anomaly_score, fraud_probability) ==
    anomaly_score = fraud_probability /\ 10 * anomaly_score = 9 * One

\* Variant: the entry is kept for one hour.
cache_entry_one_hour(fraud_score, risk_level, now) ==
    [fraud_score |-> fraud_score, risk_level |-> risk_level,
     timestamp |-> now, ttl |-> 3600]

\* The value _cache_analysis_result stores.
cache_entry(fraud_score, risk_level, now) ==
    [fraud_score |-> fraud_score, risk_level |-> risk_level,
     timestamp |-> now, ttl |-> CacheTTL]

\* Variant: the key is not built from the transaction id, so every analysis
\* is written under one key.
cache_under_one_key(store, transaction_id, fraud_score, risk_level, now, setFails) ==
    IF transaction_id # <<>> /\ ~setFails
    THEN [store EXCEPT ![CHOOSE t \in DOMAIN store : TRUE] =
                           <<cache_entry(fraud_score, risk_level, now)>>]
    ELSE store

\* _cache_analysis_result: writes only for a true transaction id, and a
\* raising setex is swallowed.
cache_analysis_result(store, transaction_id, fraud_score, risk_level, now, setFails) ==
    IF transaction_id # <<>> /\ ~setFails
    THEN [store EXCEPT ![transaction_id[1]] = <<cache_entry(fraud_score, risk_level, now)>>]
    ELSE store

\* What the except block can see of the work done before the exception.
partial(value, s, raisedAt, none) == IF completed(s, raisedAt) THEN value ELSE none

\* The whole handler. now, rnd: clock and random draws read by the feature
\* extractor; raw, proba: outputs of decision_function and predict_proba;
\* fault: the library call that raises, if any; getFails, setFails: the
\* store's get and setex raising.  call records what the execution did:
\* the values of its locals when it returned normally, the arguments it
\* passed to decision_function and predict_proba, the statement that raised,
\* and its accesses to the store.  A server that is down fails every access.
AnalyzeTransaction(now, rnd, raw, proba, fault, getFails, setFails) ==
    /\ phase = "pending"
    /\ store_up \/ (getFails /\ setFails)
    /\ \E r \in {req[1]} :
       \E raisedAt \in {raised_at(r, fault, getFails, setFails)} :
       \E features \in {IF completed("extract", raisedAt)
                        THEN extract_features(r, now, rnd, counters[r.user_id], getFails)
                        ELSE <<>>} :
       \E scaling \in {IF completed("scale", raisedAt)
                       THEN transform(scaler, features)
                       ELSE [scaler |-> scaler, scaled |-> <<>>]} :
       \E anomaly_score \in {partial(anomaly_score_of(raw), "anomaly", raisedAt, 0)} :
       \E fraud_probability \in {partial(proba, "classifier", raisedAt, 0)} :
       \E looked_up \in {started("extract", raisedAt) /\ r.amount # <<>>} :
       \E cached \in {started("cache", raisedAt) /\ r.transaction_id # <<>>} :
          /\ result' = IF raisedAt = "none"
                       THEN <<normal_assessment(features, anomaly_score,
                                                fraud_probability)>>
                       ELSE <<default_assessment(features, anomaly_score,
                                                 fraud_probability)>>
          /\ cache' = IF started("cache", raisedAt)
                      THEN cache_analysis_result(
                               cache, r.transaction_id,
                               combined_score_of(anomaly_score, fraud_probability),
                               determine_risk_level(
                                   combined_score_of(anomaly_score, fraud_probability)),
                               now, setFails)
                      ELSE cache
          /\ call' = [outcome |-> IF raisedAt = "none" THEN "normal" ELSE "fallback",
                      raised_at |-> raisedAt,
                      features |-> IF raisedAt = "none" THEN features ELSE <<>>,
                      anomaly_input |-> IF raisedAt = "none" THEN scaling.scaled ELSE <<>>,
                      classifier_input |->
                          IF raisedAt = "none" THEN scaling.scaled ELSE <<>>,
                      model_calls |->
                          Cardinality({s \in {"scale", "anomaly", "classifier"} :
                                          started(s, raisedAt)}),
                      score_above_max |->
                          raisedAt = "none"
                          /\ fusion_rounds_above(anomaly_score, fraud_probability),
                      read_keys |-> IF looked_up THEN {counter_key(r.user_id)} ELSE {},
                      written_keys |->
                          IF cached /\ ~setFails
                          THEN {analysis_key(r.transaction_id[1])} ELSE {},
                      decision_function |-> IF raisedAt = "none" THEN raw ELSE 0,
                      anomaly_score |-> IF raisedAt = "none" THEN anomaly_score ELSE 0,
                      fraud_probability |->
                          IF raisedAt = "none" THEN fraud_probability ELSE 0,
                      get_failed |-> looked_up /\ getFails,
                      set_failed |-> cached /\ setFails,
                      store_reads |-> IF looked_up THEN 1 ELSE 0,
                      store_writes |-> IF cached /\ ~setFails THEN 1 ELSE 0]
          /\ scaler' = scaling.scaler
    /\ phase' = "done"
    /\ UNCHANGED <<is_initialized, isolation_forest, random_forest, redis_client,
                   artifacts, trainings, initCalls, store_up, counters, req>>
    /\ UNCHANGED <<chatbot, retrain>>

---------------------------------------------------------------------------
(* Chat sessions (chatbot_service.py) and POST /models/retrain (main.py)   *)

\* Most process_message calls that return normally on one session id.
MaxMessages == 3

ChatSessionIds == {"s1", "s2"}
\* The /chat requests the event loop can hold at one time.
ChatCallers == {"c1", "c2"}

\* Time-to-live of a stored chat session, in seconds.
SessionTTL == 86400

NoChatCall == [pc |-> "idle", session_id |-> <<>>, outcome |-> "none"]

\* _get_session: the stored session, or a new one with message_count 0 when
\* the key is missing and also when the read raises.
get_session(sessions, session_id, getFails) ==
    IF getFails \/ sessions[session_id] = <<>>
    THEN [message_count |-> 0]
    ELSE [message_count |-> sessions[session_id][1].message_count]

\* _update_session: read, increment, setex with 86400 seconds; an exception
\* of the write is logged and nothing is stored.
update_session(sessions, session_id, getFails, setFails) ==
    LET session_data == get_session(sessions, session_id, getFails)
    IN IF setFails
       THEN sessions
       ELSE [sessions EXCEPT ![session_id] =
                <<[message_count |-> session_data.message_count + 1,
                   ttl |-> SessionTTL]>>]

\* process_message up to the await of ChatCompletion.acreate, where the call
\* is suspended: the readiness check, whose exception ends the call with the
\* error reply, intent and entities, and a session read whose result is not
\* used.  Requests carry a session id.
ProcessMessage(c, session_id) ==
    /\ chat_calls[c].pc = "idle"
    /\ chat_completed[session_id]
          + Cardinality({d \in ChatCallers : chat_calls[d].session_id = <<session_id>>})
          < MaxMessages
    /\ chat_calls' = [chat_calls EXCEPT ![c] =
                         IF chatbot_initialized
                         THEN [pc |-> "generating", session_id |-> <<session_id>>,
                               outcome |-> "none"]
                         ELSE [pc |-> "done", session_id |-> <<session_id>>,
                               outcome |-> "error"]]
    /\ UNCHANGED <<chatbot_initialized, chat_sessions, chat_completed, retrain>>
    /\ UNCHANGED <<service, store_up, counters, cache, phase, req, result, call>>

\* process_message from the completion of acreate on: _generate_response
\* returns the reply, or its apology when acreate raised; _update_session;
\* the suggestions; the reply dict is returned.
ResumeMessage(c, getFails, setFails) ==
    /\ chat_calls[c].pc = "generating"
    /\ \E session_id \in {chat_calls[c].session_id[1]} :
          /\ chat_sessions' = update_session(chat_sessions, session_id, getFails, setFails)
          /\ chat_completed' = [chat_completed EXCEPT ![session_id] = @ + 1]
    /\ chat_calls' = [chat_calls EXCEPT ![c].pc = "done", ![c].outcome = "normal"]
    /\ UNCHANGED <<chatbot_initialized, retrain>>
    /\ UNCHANGED <<service, store_up, counters, cache, phase, req, result, call>>

\* The /chat endpoint returns the reply to its caller.
ChatRespond(c) ==
    /\ chat_calls[c].pc = "done"
    /\ chat_calls' = [chat_calls EXCEPT ![c] = NoChatCall]
    /\ UNCHANGED <<chatbot_initialized, chat_sessions, chat_completed, retrain>>
    /\ UNCHANGED <<service, store_up, counters, cache, phase, req, result, call>>

\* Half of the lifetime of a stored session passes.
SessionAges(session_id) ==
    /\ chat_sessions[session_id] # <<>>
    /\ chat_sessions[session_id][1].ttl = SessionTTL
    /\ chat_sessions' = [chat_sessions EXCEPT ![session_id][1].ttl = SessionTTL \div 2]
    /\ UNCHANGED <<chatbot_initialized, chat_calls, chat_completed, retrain>>
    /\ UNCHANGED <<service, store_up, counters, cache, phase, req, result, call>>

NoRetrain == [status |-> 0, detail |-> "", role |-> "", authenticated |-> FALSE,
              invoked |-> FALSE]

\* The statement of the try block of retrain_models that raises: verify_token
\* on a token it rejects, the HTTPException(403) for a role other than admin,
\* or model_service.retrain_model.
retrain_raised_at(role, tokenValid, retrainFails) ==
    IF ~tokenValid THEN "verify_token"
    ELSE IF role # "admin" THEN "forbidden"
         ELSE IF retrainFails THEN "retrain_model" ELSE "none"

\* The response of retrain_models.  `except Exception` encloses the whole
\* body: it catches every exception raised in it, the HTTPException(403)
\* included, and raises HTTPException(500) in its place.
retrain_response(role, tokenValid, retrainFails) ==
    IF retrain_raised_at(role, tokenValid, retrainFails) = "none"
    THEN [status |-> 200, detail |-> "started"]
    ELSE [status |-> 500, detail |-> "Failed to retrain model"]

\* POST /models/retrain.
RetrainModels(role, tokenValid, retrainFails) ==
    /\ retrain.status = 0
    /\ retrain' = [status |-> retrain_response(role, tokenValid, retrainFails).status,
                   detail |-> retrain_response(role, tokenValid, retrainFails).detail,
                   role |-> role,
                   authenticated |-> tokenValid,
                   invoked |-> retrain_raised_at(role, tokenValid, retrainFails)
                                  \in {"retrain_model", "none"}]
    /\ UNCHANGED chatbot
    /\ UNCHANGED <<service, store_up, counters, cache, phase, req, result, call>>

\* The response is sent.
RetrainRespond ==
    /\ retrain.status # 0
    /\ retrain' = NoRetrain
    /\ UNCHANGED chatbot
    /\ UNCHANGED <<service, store_up, counters, cache, phase, req, result, call>>

---------------------------------------------------------------------------
(* The endpoint, the store's other writers, and the two specifications     *)

Users == {"u1"}
TxIds == {"t1"}

\* A call of analyze_transaction: /fraud/detect and /fraud/batch-analyze pass
\* the request's fields through; currency is passed and never read.  An
\* absent optional value, like an empty dict or an empty id, is <<>>.
Submit(r) ==
    /\ phase = "idle"
    /\ req' = <<r>>
    /\ phase' = "pending"
    /\ UNCHANGED <<service, store_up, counters, cache, result, call, chatbot, retrain>>

NoCall ==
    [outcome |-> "none", raised_at |-> "none", features |-> <<>>,
     anomaly_input |-> <<>>, classifier_input |-> <<>>, model_calls |-> 0,
     score_above_max |-> FALSE, read_keys |-> {}, written_keys |-> {},
     decision_function |-> 0, anomaly_score |-> 0,
     fraud_probability |-> 0, get_failed |-> FALSE, set_failed |-> FALSE,
     store_reads |-> 0, store_writes |-> 0]

\* The endpoint returns the assessment to its caller.
Respond ==
    /\ phase = "done"
    /\ phase' = "idle"
    /\ req' = <<>>
    /\ result' = <<>>
    /\ call' = NoCall
    /\ UNCHANGED <<service, store_up, counters, cache, chatbot, retrain>>

\* Another service of the platform sets a user's transaction counter.
SetCounter(u, n) ==
    /\ phase = "idle"
    /\ counters' = [counters EXCEPT ![u] = <<n>>]
    /\ UNCHANGED <<service, store_up, cache, phase, req, result, call, chatbot, retrain>>

\* The counter key is deleted or expires.
DeleteCounter(u) ==
    /\ phase = "idle"
    /\ counters[u] # <<>>
    /\ counters' = [counters EXCEPT ![u] = <<>>]
    /\ UNCHANGED <<service, store_up, cache, phase, req, result, call, chatbot, retrain>>

\* The store drops a cached analysis whose time-to-live has run out.
Expire(t) ==
    /\ phase = "idle"
    /\ cache[t] # <<>>
    /\ cache' = [cache EXCEPT ![t] = <<>>]
    /\ UNCHANGED <<service, store_up, counters, phase, req, result, call, chatbot, retrain>>

Tenth(k) == (k * One) \div 10
Twentieth(k) == (k * One) \div 20
Hundredth(k) == (k * One) \div 100

\* Requests, clock readings, random draws and model outputs of Spec.
SpecRequests ==
    {[transaction_id |-> <<"t1">>, user_id |-> "u1", amount |-> <<6000>>,
      location |-> <<>>, device_info |-> <<>>],
     [transaction_id |-> <<>>, user_id |-> "u1", amount |-> <<5000>>,
      location |-> <<0, 162>>, device_info |-> <<{"is_tor"}>>],
     [transaction_id |-> <<"t1">>, user_id |-> "u1", amount |-> <<>>,
      location |-> <<>>, device_info |-> <<>>]}
SpecClocks == {<<3, 0>>, <<12, 6>>}
SpecDraws == {<<0, Tenth(5)>>}
SpecRaws == {Hundredth(20)}
SpecProbas == {Twentieth(13), One}
SpecCounts == {2, MaxCount}

\* The service as constructed by __init__, with whatever model files an
\* earlier run of the process left on disk.
Init ==
    /\ is_initialized = FALSE
    /\ isolation_forest = NoModel
    /\ random_forest = NoModel
    /\ scaler = NoModel
    /\ redis_client = FALSE
    /\ artifacts \in {[n \in ArtifactNames |-> 0], [n \in ArtifactNames |-> 1],
                      [n \in ArtifactNames |-> IF n = "scaler" THEN 0 ELSE 1]}
    /\ trainings = 1
    /\ initCalls = 0
    /\ store_up = TRUE
    /\ counters = [u \in Users |-> <<>>]
    /\ cache = [t \in TxIds |-> <<>>]
    /\ phase = "idle"
    /\ req = <<>>
    /\ result = <<>>
    /\ call = NoCall
    /\ chatbot_initialized = FALSE
    /\ chat_sessions = [i \in ChatSessionIds |-> <<>>]
    /\ chat_calls = [c \in ChatCallers |-> NoChatCall]
    /\ chat_completed = [i \in ChatSessionIds |-> 0]
    /\ retrain = NoRetrain

\* Each failure point is drawn only on the path of _load_models that reaches it.
reaches(loadFail, fail1, fail2) ==
    IF loadFail = "makedirs" THEN fail1 = "none"
    ELSE IF all_artifacts_exist(artifacts)
         THEN fail1 = "none" /\ (loadFail = "none" => fail2 = "none")
         ELSE loadFail = "none" /\ (fail1 = "none" => fail2 = "none")

DoInitialize ==
    /\ phase = "idle"
    /\ initCalls < MaxInitCalls
    /\ \/ Initialize(TRUE, "none", "none", "none")
       \/ \E loadFail \in LoadFails, fail1 \in TrainFails, fail2 \in TrainFails :
             /\ reaches(loadFail, fail1, fail2)
             /\ Initialize(FALSE, loadFail, fail1, fail2)

DoSubmit == \E r \in SpecRequests : Submit(r)

AnyOf(S) == CHOOSE x \in S : TRUE

\* A call in which no library call raises draws every input; one in which a
\* library call raises draws the inputs read before it.
DoAnalyze ==
    /\ phase = "pending"
    /\ \/ \E now \in SpecClocks, rnd \in SpecDraws, raw \in SpecRaws,
             proba \in SpecProbas, getFails \in BOOLEAN, setFails \in BOOLEAN :
              AnalyzeTransaction(now, rnd, raw, proba, "none", getFails, setFails)
       \/ \E fault \in Faults \ {"none"}, getFails \in BOOLEAN :
              AnalyzeTransaction(AnyOf(SpecClocks), AnyOf(SpecDraws), AnyOf(SpecRaws),
                                 AnyOf(SpecProbas), fault, getFails, FALSE)

DoSetCounter == \E u \in Users, n \in SpecCounts : SetCounter(u, n)
DoDeleteCounter == \E u \in Users : DeleteCounter(u)
DoExpire == \E t \in TxIds : Expire(t)

Next ==
    \/ DoInitialize
    \/ DoSubmit
    \/ DoAnalyze
    \/ Respond
    \/ DoSetCounter
    \/ DoDeleteCounter
    \/ DoExpire

Spec == Init /\ [][Next]_vars

---------------------------------------------------------------------------
(* SpecScoring: one analysis of each transaction of a wider grid by a      *)
(* service that initialize() has made ready from the model files on disk   *)

ScoringRequests ==
    [transaction_id : {<<"t1">>},
     user_id : Users,
     amount : {<<50>>, <<5000>>, <<6000>>, <<20000>>},
     location : {<<>>, <<0, 0>>, <<0, 144>>, <<0, 162>>, <<-45, -90>>},
     device_info : {<<>>} \cup {<<flags>> : flags \in SUBSET {"is_mobile", "is_tor", "is_vpn"}}]
ScoringClocks == {<<3, 0>>, <<6, 2>>, <<22, 4>>, <<23, 6>>}
ScoringDraws == {<<Tenth(1), Tenth(9)>>}
\* decision_function values: normalized they are -0.25, 0.6, 0.7, 0.75, 0.8,
\* 0.9, 1.5.
ScoringRaws == {-Hundredth(50), -Hundredth(16), -Hundredth(12), -Hundredth(10),
                -Hundredth(8), -Hundredth(4), Hundredth(20)}
ScoringProbas == {0, Tenth(6), Twentieth(13), Tenth(8), Tenth(9), One}
ScoringCounts == {<<>>, <<0>>, <<2>>, <<3>>, <<9>>, <<MaxCount>>}

InitScoring ==
    /\ is_initialized = TRUE
    /\ isolation_forest = LoadedModel(1)
    /\ random_forest = LoadedModel(1)
    /\ scaler = LoadedModel(1)
    /\ redis_client = TRUE
    /\ artifacts = [n \in ArtifactNames |-> 1]
    /\ trainings = 1
    /\ initCalls = 1
    /\ store_up = TRUE
    /\ counters \in [Users -> ScoringCounts]
    /\ cache = [t \in TxIds |-> <<>>]
    /\ phase = "pending"
    /\ req \in {<<r>> : r \in ScoringRequests}
    /\ result = <<>>
    /\ call = NoCall
    /\ chatbot_initialized = TRUE
    /\ chat_sessions = [i \in ChatSessionIds |-> <<>>]
    /\ chat_calls = [c \in ChatCallers |-> NoChatCall]
    /\ chat_completed = [i \in ChatSessionIds |-> 0]
    /\ retrain = NoRetrain

\* A failed lookup ignores what is stored: it is drawn for the user without
\* a counter only.
ScoringGetFails == IF counters[req[1].user_id] = <<>> THEN BOOLEAN ELSE {FALSE}

DoScore ==
    /\ phase = "pending"
    /\ \/ \E now \in ScoringClocks, rnd \in ScoringDraws, raw \in ScoringRaws,
             proba \in ScoringProbas, getFails \in ScoringGetFails :
              AnalyzeTransaction(now, rnd, raw, proba, "none", getFails, FALSE)
       \/ \E fault \in Faults \ {"none"} :
              AnalyzeTransaction(AnyOf(ScoringClocks), AnyOf(ScoringDraws), AnyOf(ScoringRaws),
                                 AnyOf(ScoringProbas), fault, FALSE, FALSE)

NextScoring == DoScore

SpecScoring == InitScoring /\ [][NextScoring]_vars

---------------------------------------------------------------------------
(* SpecStartup: the processes of the service.  Each process constructs the *)
(* service, runs startup_event once and, if that returns, serves requests; *)
(* the model files and the store outlive the process                       *)

\* startup_event: earlier is get_database(), model_service.load_models() or
\* chatbot_service.initialize() raising, later is nlp_service.initialize()
\* raising; the handler logs and re-raises, which ends the process.
startup_event(earlier, redisFails, loadFail, fail1, fail2, later) ==
    /\ phase = "starting"
    /\ initCalls < MaxInitCalls
    /\ IF earlier
       THEN UNCHANGED service
       ELSE initialize(redisFails, loadFail, fail1, fail2)
    /\ phase' = IF earlier \/ initialize_raises(redisFails, loadFail, fail1, fail2) \/ later
                THEN "aborted" ELSE "idle"
    /\ chatbot_initialized' = ~earlier
    /\ UNCHANGED <<store_up, counters, cache, req, result, call>>
    /\ UNCHANGED <<chat_sessions, chat_calls, chat_completed, retrain>>

\* The process has ended or is stopped, and a new one is started: the module
\* is imported again and FraudDetectionService() constructed.
Restart ==
    /\ phase \in {"idle", "aborted"}
    /\ is_initialized' = FALSE
    /\ isolation_forest' = NoModel
    /\ random_forest' = NoModel
    /\ scaler' = NoModel
    /\ redis_client' = FALSE
    /\ phase' = "starting"
    /\ chatbot_initialized' = FALSE
    /\ UNCHANGED <<artifacts, trainings, initCalls, store_up, counters, cache, req, result,
                   call>>
    /\ UNCHANGED <<chat_sessions, chat_calls, chat_completed, retrain>>

\* The Redis server goes down or comes back.
StoreOutage ==
    /\ phase \in {"starting", "idle"}
    /\ store_up' = ~store_up
    /\ UNCHANGED <<service, counters, cache, phase, req, result, call, chatbot, retrain>>

InitStartup ==
    /\ is_initialized = FALSE
    /\ isolation_forest = NoModel
    /\ random_forest = NoModel
    /\ scaler = NoModel
    /\ redis_client = FALSE
    /\ artifacts \in {[n \in ArtifactNames |-> 0], [n \in ArtifactNames |-> 1],
                      [n \in ArtifactNames |-> IF n = "scaler" THEN 0 ELSE 1]}
    /\ trainings = 1
    /\ initCalls = 0
    /\ store_up \in BOOLEAN
    /\ counters = [u \in Users |-> <<>>]
    /\ cache = [t \in TxIds |-> <<>>]
    /\ phase = "starting"
    /\ req = <<>>
    /\ result = <<>>
    /\ call = NoCall
    /\ chatbot_initialized = FALSE
    /\ chat_sessions = [i \in ChatSessionIds |-> <<>>]
    /\ chat_calls = [c \in ChatCallers |-> NoChatCall]
    /\ chat_completed = [i \in ChatSessionIds |-> 0]
    /\ retrain = NoRetrain

DoStartup ==
    /\ phase = "starting"
    /\ initCalls < MaxInitCalls
    /\ \/ startup_event(TRUE, FALSE, "none", "none", "none", FALSE)
       \/ startup_event(FALSE, TRUE, "none", "none", "none", FALSE)
       \/ \E loadFail \in LoadFails, fail1 \in TrainFails, fail2 \in TrainFails,
             later \in BOOLEAN :
             /\ reaches(loadFail, fail1, fail2)
             /\ startup_event(FALSE, FALSE, loadFail, fail1, fail2, later)

\* The accesses of a call fail exactly when the server is down.
DoStartupAnalyze ==
    /\ phase = "pending"
    /\ \E proba \in SpecProbas :
          AnalyzeTransaction(AnyOf(SpecClocks), AnyOf(SpecDraws), AnyOf(SpecRaws), proba,
                             "none", ~store_up, ~store_up)

NextStartup ==
    \/ DoStartup
    \/ Restart
    \/ StoreOutage
    \/ DoSubmit
    \/ DoStartupAnalyze
    \/ Respond

SpecStartup == InitStartup /\ [][NextStartup]_vars

---------------------------------------------------------------------------
(* SpecBatch: /fraud/batch-analyze on a ready service: the transactions of *)
(* a batch, of two users, are analysed one after the other                 *)

BatchUsers == {"u1", "u2"}
BatchTxIds == {"t1", "t2"}

BatchRequests ==
    [transaction_id : {<<>>, <<"t1">>, <<"t2">>},
     user_id : BatchUsers,
     amount : {<<6000>>},
     location : {<<>>},
     device_info : {<<>>}]
BatchClocks == {<<3, 0>>, <<12, 6>>}
BatchProbas == {Twentieth(13), One}
BatchCounts == {<<3>>, <<9>>, <<MaxCount>>}

\* What decision_function and predict_proba can return in a call that reads
\* the clock now and the draws rnd.  A fitted estimator is a function of its
\* argument, and no call changes the estimators: for the argument of the
\* previous call they return what they returned then.
estimator_outputs(now, rnd, getFails) ==
    IF /\ call.outcome = "normal"
       /\ req[1].amount # <<>>
       /\ transform(scaler, extract_features(req[1], now, rnd, counters[req[1].user_id],
                                             getFails)).scaled = call.anomaly_input
    THEN {<<call.decision_function, call.fraud_probability>>}
    ELSE {<<raw, proba>> : raw \in SpecRaws, proba \in BatchProbas}

InitBatch ==
    /\ is_initialized = TRUE
    /\ isolation_forest = LoadedModel(1)
    /\ random_forest = LoadedModel(1)
    /\ scaler = LoadedModel(1)
    /\ redis_client = TRUE
    /\ artifacts = [n \in ArtifactNames |-> 1]
    /\ trainings = 1
    /\ initCalls = 1
    /\ store_up = TRUE
    /\ counters \in [BatchUsers -> BatchCounts]
    /\ cache = [t \in BatchTxIds |-> <<>>]
    /\ phase = "pending"
    /\ req \in {<<r1, r2>> : r1 \in BatchRequests, r2 \in BatchRequests}
    /\ result = <<>>
    /\ call = NoCall
    /\ chatbot_initialized = TRUE
    /\ chat_sessions = [i \in ChatSessionIds |-> <<>>]
    /\ chat_calls = [c \in ChatCallers |-> NoChatCall]
    /\ chat_completed = [i \in ChatSessionIds |-> 0]
    /\ retrain = NoRetrain

\* One iteration of the loop: analyze_transaction on the next transaction,
\* with the store answering.
DoBatchAnalyze ==
    /\ phase = "pending"
    /\ \E now \in BatchClocks :
       \E out \in estimator_outputs(now, AnyOf(SpecDraws), FALSE) :
          AnalyzeTransaction(now, AnyOf(SpecDraws), out[1], out[2], "none", FALSE, FALSE)

\* results.append(fraud_result) and the loop goes on to the next transaction.
NextTransaction ==
    /\ phase = "done"
    /\ Len(req) > 1
    /\ req' = Tail(req)
    /\ phase' = "pending"
    /\ UNCHANGED <<service, store_up, counters, cache, result, call, chatbot, retrain>>

\* The loop is over and the endpoint returns the results.
BatchReturn ==
    /\ Len(req) = 1
    /\ Respond

NextBatch ==
    \/ DoBatchAnalyze
    \/ NextTransaction
    \/ BatchReturn

SpecBatch == InitBatch /\ [][NextBatch]_vars

---------------------------------------------------------------------------
(* Properties                                                              *)

---------------------------------------------------------------------------
(* SpecService: the /chat and /models/retrain requests served by a process *)
(* whose startup succeeded                                                 *)

InitService ==
    /\ is_initialized = TRUE
    /\ isolation_forest = LoadedModel(1)
    /\ random_forest = LoadedModel(1)
    /\ scaler = LoadedModel(1)
    /\ redis_client = TRUE
    /\ artifacts = [n \in ArtifactNames |-> 1]
    /\ trainings = 1
    /\ initCalls = 1
    /\ store_up = TRUE
    /\ counters = [u \in Users |-> <<>>]
    /\ cache = [t \in TxIds |-> <<>>]
    /\ phase = "idle"
    /\ req = <<>>
    /\ result = <<>>
    /\ call = NoCall
    /\ chatbot_initialized = TRUE
    /\ chat_sessions = [i \in ChatSessionIds |-> <<>>]
    /\ chat_calls = [c \in ChatCallers |-> NoChatCall]
    /\ chat_completed = [i \in ChatSessionIds |-> 0]
    /\ retrain = NoRetrain

RetrainRoles == {"admin", "user", "merchant"}

DoProcessMessage == \E c \in ChatCallers, i \in ChatSessionIds : ProcessMessage(c, i)
DoResumeMessage ==
    \E c \in ChatCallers, getFails \in BOOLEAN, setFails \in BOOLEAN :
        ResumeMessage(c, getFails, setFails)
DoChatRespond == \E c \in ChatCallers : ChatRespond(c)
DoSessionAges == \E i \in ChatSessionIds : SessionAges(i)
DoRetrainModels ==
    \E role \in RetrainRoles, tokenValid \in BOOLEAN, retrainFails \in BOOLEAN :
        RetrainModels(role, tokenValid, retrainFails)

NextService ==
    \/ DoProcessMessage
    \/ DoResumeMessage
    \/ DoChatRespond
    \/ DoSessionAges
    \/ DoRetrainModels
    \/ RetrainRespond

SpecService == InitService /\ [][NextService]_vars

---------------------------------------------------------------------------
(* Claims                                                                  *)

Returned == phase = "done"
ReturnedNormal == phase = "done" /\ call.outcome = "normal"
ReturnedFallback == phase = "done" /\ call.outcome = "fallback"
Range(seq) == {seq[i] : i \in 1..Len(seq)}

AssessmentFields == {"fraud_score", "risk_level", "reasons", "recommendation", "confidence"}

\* C1: every call of analyze_transaction returns (it never raises), in every
\* service state and whether or not the store and the model calls fail, and
\* the returned assessment has exactly the five fields, with fraud_score and
\* confidence in [0,1], risk_level one of low, medium, high, and a non-empty
\* reasons list.
C1_AlwaysWellFormed ==
    /\ phase = "pending" => ENABLED DoAnalyze
    /\ Returned =>
          /\ Len(result) = 1
          /\ DOMAIN result[1] = AssessmentFields
          /\ result[1].fraud_score >= 0 /\ result[1].fraud_score <= One
          /\ result[1].confidence >= 0 /\ result[1].confidence <= One
          /\ result[1].risk_level \in {"low", "medium", "high"}
          /\ Len(result[1].reasons) >= 1

\* A normally computed assessment returned while both store accesses failed.
C1_Witness ==
    /\ ReturnedNormal
    /\ call.get_failed
    /\ call.set_failed
    /\ result[1].fraud_score = One

\* C2: when a statement of the try block raises, the assessment returned is
\* exactly the fixed default (0.5, "medium", ["Unable to analyze
\* transaction"], "Manual review recommended", 0.0).
C2_FallbackIsFixedDefault ==
    (Returned /\ call.raised_at # "none") =>
        result = << [fraud_score |-> One \div 2,
                     risk_level |-> "medium",
                     reasons |-> <<"Unable to analyze transaction">>,
                     recommendation |-> "Manual review recommended",
                     confidence |-> 0] >>

\* An exception raised after both scores had been computed.
C2_Witness ==
    /\ Returned
    /\ call.raised_at = "reasons"
    /\ result[1].fraud_score = One \div 2
    /\ result[1].confidence = 0

\* C3: a call that returns the fallback assessment leaves the cache as it
\* was and reads the store at most once; an entry is created or replaced
\* only by a call that returns the normally computed assessment.
C3_FallbackWritesNothing ==
    [][ /\ (phase = "pending" /\ phase' = "done" /\ call'.outcome = "fallback")
            => (cache' = cache /\ call'.store_writes = 0 /\ call'.store_reads <= 1)
        /\ (\E t \in TxIds : cache'[t] # cache[t] /\ cache'[t] # <<>>)
            => (phase = "pending" /\ phase' = "done" /\ call'.outcome = "normal")
      ]_vars

\* A late exception in a call for a transaction that has an id and no entry.
C3_Witness ==
    /\ ReturnedFallback
    /\ call.raised_at = "recommend"
    /\ req[1].transaction_id = <<"t1">>
    /\ cache["t1"] = <<>>

\* C4: a failure of the store never causes the fallback: after a failed
\* frequency lookup the extractor completes with frequency_risk 0.5, and
\* after a failed cache write the call returns the assessment computed from
\* its features and scores, as it does when the write succeeds.
C4_StoreFailureIsNotFatal ==
    Returned =>
        /\ call.get_failed =>
              /\ call.raised_at # "extract"
              /\ call.outcome = "normal" => call.features[6] = One \div 2
        /\ call.set_failed =>
              /\ call.outcome = "normal"
              /\ result[1].fraud_score =
                     (4 * call.anomaly_score + 6 * call.fraud_probability) \div 10
              /\ result[1].reasons # <<"Unable to analyze transaction">>
        /\ (call.raised_at \in {"cache", "return"}) = FALSE

\* The lookup failed, scoring went on and the write stored the result.
C4_Witness ==
    /\ ReturnedNormal
    /\ call.get_failed
    /\ call.features[6] = One \div 2
    /\ call.store_writes = 1
    /\ cache["t1"] # <<>>

\* C5: in every normally computed assessment fraud_score is
\* 0.4 * anomaly_score + 0.6 * classifier_probability, and it lies in [0,1].
C5_WeightedFusion ==
    ReturnedNormal =>
        /\ 10 * result[1].fraud_score = 4 * call.anomaly_score + 6 * call.fraud_probability
        /\ call.anomaly_score >= 0 /\ call.anomaly_score <= One
        /\ call.fraud_probability >= 0 /\ call.fraud_probability <= One
        /\ result[1].fraud_score >= 0 /\ result[1].fraud_score <= One

\* anomaly_score 0.75 and probability 0.65 fuse to 0.69.
C5_Witness ==
    /\ ReturnedNormal
    /\ call.anomaly_score = (75 * One) \div 100
    /\ call.fraud_probability = (65 * One) \div 100
    /\ result[1].fraud_score = (69 * One) \div 100

TierRank(level) == IF level = "low" THEN 1 ELSE IF level = "medium" THEN 2 ELSE 3
ScoreGrid == {(k * One) \div 100 : k \in {0, 30, 59, 60, 61, 79, 80, 81, 100}}

\* C6: the risk tier is a non-decreasing step function of the score: "high"
\* from 0.8 on, "medium" from 0.6 up to but excluding 0.8, "low" below 0.6;
\* and the risk_level of every normally computed assessment is that function
\* of its fraud_score.
C6_TierIsStepFunction ==
    ReturnedNormal =>
        /\ result[1].fraud_score >= (8 * One) \div 10 => result[1].risk_level = "high"
        /\ (/\ result[1].fraud_score >= (6 * One) \div 10
            /\ result[1].fraud_score < (8 * One) \div 10) => result[1].risk_level = "medium"
        /\ result[1].fraud_score < (6 * One) \div 10 => result[1].risk_level = "low"
        /\ \A x \in ScoreGrid :
              /\ determine_risk_level(x) =
                     IF 10 * x >= 8 * One THEN "high"
                     ELSE IF 10 * x >= 6 * One THEN "medium" ELSE "low"
              /\ x <= result[1].fraud_score
                    => TierRank(determine_risk_level(x)) <= TierRank(result[1].risk_level)
              /\ x >= result[1].fraud_score
                    => TierRank(determine_risk_level(x)) >= TierRank(result[1].risk_level)

\* A score of exactly 0.8 is tiered "high".
C6_Witness ==
    /\ ReturnedNormal
    /\ result[1].fraud_score = (8 * One) \div 10
    /\ result[1].risk_level = "high"

\* C7: the recommendation of a normally computed assessment is fixed by its
\* risk tier, whatever its reasons are, and "Manual review recommended" is
\* returned only by the fallback.
C7_RecommendationByTier ==
    /\ ReturnedNormal =>
          result[1].recommendation =
              CASE result[1].risk_level = "high" ->
                       "Block transaction and require manual review"
                [] result[1].risk_level = "medium" ->
                       "Require additional verification (2FA, SMS)"
                [] result[1].risk_level = "low" ->
                       "Approve transaction with standard monitoring"
    /\ (Returned /\ result[1].recommendation = "Manual review recommended")
          => call.outcome = "fallback"

\* A low-tier assessment with five reasons is still approved.
C7_Witness ==
    /\ ReturnedNormal
    /\ result[1].risk_level = "low"
    /\ Len(result[1].reasons) = 5
    /\ result[1].recommendation = "Approve transaction with standard monitoring"

\* C8: the confidence of a normally computed assessment is the larger of the
\* clamped anomaly score and the classifier probability that were fused into
\* its fraud_score.
C8_ConfidenceIsMax ==
    ReturnedNormal =>
        /\ result[1].confidence =
               IF call.anomaly_score >= call.fraud_probability
               THEN call.anomaly_score ELSE call.fraud_probability
        /\ call.anomaly_score >= 0 /\ call.anomaly_score <= One
        /\ 10 * result[1].fraud_score = 4 * call.anomaly_score + 6 * call.fraud_probability

\* The anomaly score is clamped to 1 and exceeds the combined score 0.76.
C8_Witness ==
    /\ ReturnedNormal
    /\ call.anomaly_score = One
    /\ call.fraud_probability = (6 * One) \div 10
    /\ result[1].confidence = One
    /\ result[1].fraud_score = (76 * One) \div 100

RuleMessages ==
    <<"High transaction amount", "Unusual transaction time", "High-risk location",
      "Suspicious device characteristics", "Unusual transaction frequency",
      "Transaction pattern anomaly detected",
      "High fraud probability based on historical data">>

\* Whether rule k of the explanation generator applies to the values the
\* last call scored.
RuleApplies(k) ==
    CASE k = 1 -> call.features[1] * 10000 > 5000 * One
      [] k = 2 -> call.features[2] * 24 < 6 * One \/ call.features[2] * 24 > 22 * One
      [] k = 3 -> 10 * call.features[4] > 8 * One
      [] k = 4 -> 10 * call.features[5] > 7 * One
      [] k = 5 -> 10 * call.features[6] > 7 * One
      [] k = 6 -> 10 * call.anomaly_score > 7 * One
      [] k = 7 -> 10 * call.fraud_probability > 6 * One

IsRuleMessage(m) == m \in Range(RuleMessages)

\* C9: the rule messages in the reasons of a normally computed assessment
\* are exactly those of the rules that apply, each once, in rule order; the
\* comparisons are strict.
C9_ReasonsFollowRules ==
    ReturnedNormal =>
        LET listed == SelectSeq(result[1].reasons, IsRuleMessage)
        IN /\ \A k \in 1..7 : (RuleMessages[k] \in Range(listed)) <=> RuleApplies(k)
           /\ Cardinality(Range(listed)) = Len(listed)
           /\ \A i \in 1..Len(listed), j \in 1..Len(listed) :
                 i < j => \E a \in 1..7, b \in 1..7 :
                             a < b /\ RuleMessages[a] = listed[i] /\ RuleMessages[b] = listed[j]

\* At hour 22 with device_risk 0.7 and anomaly_score 0.7 none of the three
\* rules fires, while the amount and probability rules do.
C9_Witness ==
    /\ ReturnedNormal
    /\ call.features[2] * 24 = 22 * One
    /\ 10 * call.features[5] = 7 * One
    /\ 10 * call.anomaly_score = 7 * One
    /\ result[1].reasons = <<"High transaction amount",
                             "High fraud probability based on historical data">>

\* C10: the reasons of a normally computed assessment are never empty, and
\* "Standard risk assessment" is among them exactly when no rule applies, in
\* which case it is the only one.
C10_DefaultReason ==
    ReturnedNormal =>
        /\ result[1].reasons # <<>>
        /\ ("Standard risk assessment" \in Range(result[1].reasons))
              <=> (\A k \in 1..7 : ~RuleApplies(k))
        /\ (\A k \in 1..7 : ~RuleApplies(k))
              => result[1].reasons = <<"Standard risk assessment">>

\* No rule applies: the default reason stands alone.
C10_Witness ==
    /\ ReturnedNormal
    /\ \A k \in 1..7 : ~RuleApplies(k)
    /\ result[1].reasons = <<"Standard risk assessment">>

\* C11: the frequency risk of a call whose lookup succeeded is 0.8 for a
\* stored count below 3 (a stored 0 included), 0.4 from 3 to 9 and 0.2 from
\* 10 on, so 2, 3, 9, 10 give 0.8, 0.4, 0.4, 0.2; a user without a counter
\* is rated as count 5, which gives 0.4.
C11_FrequencyRiskByCount ==
    (ReturnedNormal /\ ~call.get_failed) =>
        LET stored == counters[req[1].user_id]
            frequency_risk == call.features[6]
        IN /\ stored = <<>> => 10 * frequency_risk = 4 * One
           /\ stored # <<>> =>
                 /\ stored[1] < 3 => 10 * frequency_risk = 8 * One
                 /\ (stored[1] >= 3 /\ stored[1] < 10) => 10 * frequency_risk = 4 * One
                 /\ stored[1] >= 10 => 10 * frequency_risk = 2 * One
           /\ stored = <<0>> => 10 * frequency_risk = 8 * One
           /\ stored = <<2>> => 10 * frequency_risk = 8 * One
           /\ stored = <<3>> => 10 * frequency_risk = 4 * One
           /\ stored = <<9>> => 10 * frequency_risk = 4 * One
           /\ stored = <<10>> => 10 * frequency_risk = 2 * One

\* A stored count of zero is rated 0.8.
C11_Witness ==
    /\ ReturnedNormal
    /\ ~call.get_failed
    /\ counters[req[1].user_id] = <<0>>
    /\ 10 * call.features[6] = 8 * One

\* C12: device_risk is min(1.0, 0.5 + 0.1 [is_mobile] + 0.3 [is_tor]
\* + 0.2 [is_vpn]) for every combination of the flags and 0.5 without a
\* device descriptor; it lies in [0.5, 1.0], and tor with vpn, with or
\* without mobile, gives 1.0.
C12_DeviceRisk ==
    ReturnedNormal =>
        LET d == req[1].device_info
            flags == IF d = <<>> THEN {} ELSE d[1]
            tenths == 5 + (IF "is_mobile" \in flags THEN 1 ELSE 0)
                        + (IF "is_tor" \in flags THEN 3 ELSE 0)
                        + (IF "is_vpn" \in flags THEN 2 ELSE 0)
            risk == call.features[5]
        IN /\ 10 * risk = (IF tenths > 10 THEN 10 ELSE tenths) * One
           /\ d = <<>> => 2 * risk = One
           /\ 2 * risk >= One /\ risk <= One
           /\ {"is_tor", "is_vpn"} \subseteq flags => risk = One

\* All three flags: 1.1 before the cap, 1.0 after it.
C12_Witness ==
    /\ ReturnedNormal
    /\ req[1].device_info = <<{"is_mobile", "is_tor", "is_vpn"}>>
    /\ call.features[5] = One

\* C13: location_risk is 0.5 without a geolocation and
\* |latitude| + |longitude| / 180 with one, not clamped; latitude 0 and
\* longitude 0 give 0, not the default.
C13_LocationRisk ==
    ReturnedNormal =>
        LET l == req[1].location
            risk == call.features[4]
        IN /\ l = <<>> => 2 * risk = One
           /\ l # <<>> =>
                 180 * risk = (180 * (IF l[1] < 0 THEN -l[1] ELSE l[1])
                               + (IF l[2] < 0 THEN -l[2] ELSE l[2])) * One
           /\ l = <<0, 0>> => risk = 0

\* Latitude -45, longitude -90: the risk is 45.5, far above 1.
C13_Witness ==
    /\ ReturnedNormal
    /\ req[1].location = <<-45, -90>>
    /\ 2 * call.features[4] = 91 * One
    /\ call.features[4] > One

\* A transaction the specification calls valid.
ValidTransaction(r) ==
    /\ r.amount # <<>> /\ r.amount[1] > 0
    /\ r.location # <<>> =>
          /\ r.location[1] >= -90 /\ r.location[1] <= 90
          /\ r.location[2] >= -180 /\ r.location[2] <= 180

\* C14: the feature vector of a valid transaction (positive amount, latitude
\* in [-90,90], longitude in [-180,180]) has length 8, in the order amount,
\* hour, weekday, location risk, device risk, frequency risk and two
\* reserved values, every value lies in [0,1], and the first is
\* min(amount / 10000, 1.0).
C14_FeatureVectorInUnitRange ==
    (ReturnedNormal /\ ValidTransaction(req[1])) =>
        LET features == call.features
            r == req[1]
        IN /\ Len(features) = 8
           /\ 10000 * features[1]
                  = (IF r.amount[1] < 10000 THEN r.amount[1] ELSE 10000) * One
           /\ r.transaction_id # <<>> /\ cache[r.transaction_id[1]] # <<>> =>
                  /\ 24 * features[2] = cache[r.transaction_id[1]][1].timestamp[1] * One
                  /\ 7 * features[3] = cache[r.transaction_id[1]][1].timestamp[2] * One
           /\ features[4] = location_risk(r.location)
           /\ features[5] = Min(device_risk(r.device_info), One)
           /\ features[6] \in {(2 * One) \div 10, (4 * One) \div 10, (5 * One) \div 10,
                                (8 * One) \div 10}
           /\ \A i \in 1..8 : features[i] >= 0 /\ features[i] <= One

\* C15: the anomaly score is clamp((raw - offset) / |offset|, 0, 1) of the
\* decision-function value raw, and it measures outlier strength: a vector
\* the model rates lower (more of an outlier) than another gets an anomaly
\* score at least as high as the other's.
C15_AnomalyScoreIsOutlierStrength ==
    ReturnedNormal =>
        LET normalized == ((call.decision_function - Offset) * One) \div Abs(Offset)
        IN /\ call.anomaly_score
                  = (IF normalized < 0 THEN 0 ELSE IF normalized > One THEN One
                                                   ELSE normalized)
           /\ \A raw \in ScoringRaws :
                  call.decision_function < raw
                      => call.anomaly_score >= anomaly_score_of(raw)

\* The store answered every access the call made.
StoreReachable == store_up /\ ~call.get_failed /\ ~call.set_failed

\* C16 as stated: every call that returns a normally computed assessment
\* while the store is reachable leaves, under the key of its transaction id
\* and with a time-to-live of 86400 seconds, an entry whose fraud_score and
\* risk_level are the ones it returned.
C16_ResultIsCached ==
    (ReturnedNormal /\ StoreReachable) =>
        /\ call.store_writes = 1
        /\ req[1].transaction_id # <<>>
        /\ cache[req[1].transaction_id[1]] # <<>>
        /\ cache[req[1].transaction_id[1]][1].fraud_score = result[1].fraud_score
        /\ cache[req[1].transaction_id[1]][1].risk_level = result[1].risk_level
        /\ cache[req[1].transaction_id[1]][1].ttl = 86400

\* C16, amended: a call that returns a normally computed assessment while
\* the store is reachable leaves such an entry when the transaction data
\* carry a non-empty id, and writes nothing when they carry none.
C16_ResultIsCachedUnderItsId ==
    (ReturnedNormal /\ StoreReachable) =>
        IF req[1].transaction_id # <<>>
        THEN /\ call.store_writes = 1
             /\ cache[req[1].transaction_id[1]] # <<>>
             /\ cache[req[1].transaction_id[1]][1].fraud_score = result[1].fraud_score
             /\ cache[req[1].transaction_id[1]][1].risk_level = result[1].risk_level
             /\ cache[req[1].transaction_id[1]][1].ttl = 86400
        ELSE call.store_writes = 0

\* A scored transaction with an id and its entry.
C16_Witness ==
    /\ ReturnedNormal
    /\ StoreReachable
    /\ req[1].transaction_id = <<"t1">>
    /\ result[1].risk_level = "high"
    /\ cache["t1"] # <<>>
    /\ cache["t1"][1].risk_level = "high"
    /\ cache["t1"][1].ttl = 86400

\* C17: once written, a cached assessment is changed by nothing but its
\* expiry: no step replaces its content or restarts its lifetime.
C17_CachedAssessmentIsImmutable ==
    [][\A t \in TxIds : cache[t] # <<>> => (cache'[t] = cache[t] \/ cache'[t] = <<>>)]_vars

\* C18: a call of analyze_transaction leaves the three models, the
\* initialization flag and the model files as they were, and what it passes
\* to the anomaly model and to the classifier is one and the same vector,
\* scaled by the scaler as it was before the call.
C18_RequestsOnlyReadModels ==
    [][(phase = "pending" /\ phase' = "done") =>
          /\ isolation_forest' = isolation_forest
          /\ random_forest' = random_forest
          /\ scaler' = scaler
          /\ is_initialized' = is_initialized
          /\ artifacts' = artifacts
          /\ trainings' = trainings
          /\ call'.outcome = "normal" =>
                /\ call'.anomaly_input = call'.classifier_input
                /\ call'.anomaly_input = <<scaler.gen, call'.features>>
      ]_vars

\* A second scoring by models loaded from disk, which are still the loaded ones.
C18_Witness ==
    /\ ReturnedNormal
    /\ cache["t1"] # <<>>
    /\ cache["t1"][1].fraud_score # result[1].fraud_score
    /\ isolation_forest = LoadedModel(1)
    /\ random_forest = LoadedModel(1)
    /\ scaler = LoadedModel(1)
    /\ call.anomaly_input = <<1, call.features>>

\* The three models come from one load or from one training run.
ModelsOfOneOrigin ==
    /\ usable(isolation_forest) /\ usable(random_forest) /\ usable(scaler)
    /\ random_forest.gen = isolation_forest.gen
    /\ scaler.gen = isolation_forest.gen
    /\ random_forest.loaded = isolation_forest.loaded
    /\ scaler.loaded = isolation_forest.loaded

\* C19: a startup that finds the three model files and trains nothing has
\* loaded all three; one that finds a file missing trains; one that trains
\* has three models of that one training run and has written all three
\* files; and a service that is ready never holds models of different
\* origin (some loaded and some trained, or of different training runs).
C19_ArtifactsAllOrNothing ==
    [][ /\ (phase = "starting" /\ phase' = "idle") =>
            /\ (all_artifacts_exist(artifacts) /\ trainings' = trainings) =>
                  /\ isolation_forest' = LoadedModel(artifacts["isolation_forest"])
                  /\ random_forest' = LoadedModel(artifacts["random_forest"])
                  /\ scaler' = LoadedModel(artifacts["scaler"])
                  /\ artifacts' = artifacts
            /\ ~all_artifacts_exist(artifacts) => trainings' > trainings
            /\ trainings' > trainings =>
                  /\ isolation_forest' = FittedModel(trainings')
                  /\ random_forest' = FittedModel(trainings')
                  /\ scaler' = FittedModel(trainings')
                  /\ artifacts' = [n \in ArtifactNames |-> trainings']
        /\ (is_initialized' /\ isolation_forest'.set) => ModelsOfOneOrigin'
      ]_vars

\* C20: a startup in which initialize() is called while the store is down,
\* or which leaves a model unusable or a model file missing, is aborted and
\* leaves the service not ready.
C20_InitializationFailureIsFatal ==
    [][(phase = "starting" /\ initCalls' = initCalls + 1) =>
          /\ ~store_up => (phase' = "aborted" /\ ~(is_initialized' /\ isolation_forest'.set))
          /\ (\/ ~usable(isolation_forest') \/ ~usable(random_forest') \/ ~usable(scaler')
              \/ ~all_artifacts_exist(artifacts'))
                => (phase' = "aborted" /\ ~(is_initialized' /\ isolation_forest'.set))
      ]_vars

\* C21: a startup that finds no model file and calls _load_models runs the
\* training procedure exactly once, whether it succeeds or raises, and
\* ends, started or aborted.
C21_TrainsExactlyOnce ==
    [][(/\ phase = "starting"
        /\ initCalls' = initCalls + 1
        /\ redis_client'
        /\ artifacts = [n \in ArtifactNames |-> 0]) =>
          /\ trainings' = trainings + 1
          /\ phase' \in {"idle", "aborted"}
      ]_vars

C23_AnalysesAreIndependent ==
    [][(phase = "pending" /\ phase' = "done") =>
          /\ counters' = counters
          /\ call'.read_keys \subseteq {<<"user_transactions", req[1].user_id>>}
          /\ call'.written_keys \subseteq
                 {<<"fraud_analysis", t>> : t \in {u \in BatchTxIds :
                                                     req[1].transaction_id = <<u>>}}
          /\ \A t \in BatchTxIds :
                 req[1].transaction_id # <<t>> => cache'[t] = cache[t]
      ]_vars

\* The second transaction of a batch, of another user than the first: both
\* analyses are cached and the counters of both users are as they were.
C23_Witness ==
    /\ ReturnedNormal
    /\ Len(req) = 1
    /\ req[1].user_id = "u2"
    /\ req[1].transaction_id = <<"t2">>
    /\ call.read_keys = {<<"user_transactions", "u2">>}
    /\ call.written_keys = {<<"fraud_analysis", "t2">>}
    /\ cache["t1"] # <<>>
    /\ cache["t2"] # <<>>
    /\ counters["u1"] = <<3>>
    /\ counters["u2"] = <<9>>

\* C24: whenever an analysis has called a model, the three models the
\* service holds are fitted and belong to one training generation, also
\* after initialize() was called again on the ready service and its
\* training raised part-way.
C24_TrainingIsExclusive ==
    (Returned /\ call.model_calls > 0) =>
        /\ usable(isolation_forest) /\ usable(random_forest) /\ usable(scaler)
        /\ random_forest.gen = isolation_forest.gen
        /\ scaler.gen = isolation_forest.gen

\* C25: an analysis called on a service that is not ready (never
\* initialized, or initialize() raised) returns the default assessment,
\* reads nothing from the store, writes nothing to it and calls no model.
C25_NotReadyTouchesNothing ==
    [][(phase = "pending" /\ phase' = "done" /\ ~is_ready) =>
          /\ result' = <<default_assessment(<<>>, 0, 0)>>
          /\ call'.outcome = "fallback"
          /\ call'.store_reads = 0 /\ call'.read_keys = {}
          /\ call'.store_writes = 0 /\ call'.written_keys = {}
          /\ call'.model_calls = 0
          /\ cache' = cache /\ counters' = counters
      ]_vars

\* A transaction with an amount and an id, whose user has a stored count,
\* analysed after initialize() raised: stopped at the readiness check.
C25_Witness ==
    /\ Returned
    /\ initCalls > 0
    /\ ~is_initialized
    /\ req[1].amount # <<>>
    /\ req[1].transaction_id # <<>>
    /\ counters[req[1].user_id] # <<>>
    /\ call.raised_at = "ready"
    /\ call.store_reads = 0
    /\ result[1].confidence = 0

\* C26: in a process that calls initialize() once, at startup, the flag
\* is_initialized is set only while the anomaly model, the classifier and
\* the scaler are all set and fitted; so is_ready() is never true while
\* one of them is missing, whichever way initialize() went.
C26_InitializedMeansAllModels ==
    /\ is_initialized =>
          usable(isolation_forest) /\ usable(random_forest) /\ usable(scaler)
    /\ is_ready => (random_forest.set /\ scaler.set)

\* A service started by the path with the most failures: no model file,
\* the first training raised, the second fitted all three models.
C26_Witness ==
    /\ phase = "idle"
    /\ is_initialized
    /\ trainings = 3
    /\ isolation_forest = FittedModel(3)
    /\ random_forest = FittedModel(3)
    /\ scaler = FittedModel(3)

\* C30 as stated: the fraud_score of a normally computed assessment is never
\* greater than its confidence, and the default assessment is the only one
\* returned whose fraud_score is greater than its confidence.
C30_ScoreNeverAboveConfidence ==
    Returned =>
        (ReturnedFallback <=>
            (result[1].fraud_score > result[1].confidence \/ call.score_above_max))

\* C30, amended: the exact weighted mean of a normally computed assessment
\* is never greater than its confidence; the double that is returned is
\* greater only by the rounding of the two products, which takes the two
\* scores to be equal; the default assessment has fraud_score 0.5 above
\* confidence 0.0.
C30_ScoreAboveConfidenceOnlyByRounding ==
    /\ ReturnedNormal =>
          /\ 10 * result[1].fraud_score
                 = 4 * call.anomaly_score + 6 * call.fraud_probability
          /\ result[1].fraud_score <= result[1].confidence
          /\ call.score_above_max =>
                /\ call.anomaly_score = call.fraud_probability
                /\ result[1].fraud_score = result[1].confidence
    /\ ReturnedFallback =>
          /\ result[1].fraud_score > result[1].confidence
          /\ ~call.score_above_max

\* Anomaly score 0.9 and classifier probability 0.9: confidence is 0.9 and
\* the fused double is 0.9000000000000001.
C30_Witness ==
    /\ ReturnedNormal
    /\ 10 * call.anomaly_score = 9 * One
    /\ 10 * call.fraud_probability = 9 * One
    /\ 10 * result[1].confidence = 9 * One
    /\ call.score_above_max

\* C27: the vector a transaction is scored as equals the training sample
\* of a transaction with the same amount, hour, weekday and risks, and the
\* models are fitted on vectors that went through the scaling that the
\* scored vectors go through.
C27_TrainingMatchesInference ==
    ReturnedNormal =>
        LET now == cache[req[1].transaction_id[1]][1].timestamp
            sample == synthetic_feature_vector(req[1].amount[1], now[1], now[2],
                                               SubSeq(call.features, 4, 8))
        IN /\ sample = call.features
           /\ fit_input(call.features)[1] = call.anomaly_input[1]
           /\ fit_input(call.features)[1] = call.classifier_input[1]

\* C28: a /models/retrain request of an authenticated caller whose role is
\* not admin is answered 403 "Admin privileges required", and
\* model_service.retrain_model is not invoked for it.
C28_NonAdminIsForbidden ==
    (retrain.status # 0 /\ retrain.authenticated /\ retrain.role # "admin") =>
        /\ retrain.status = 403
        /\ retrain.detail = "Admin privileges required"
        /\ ~retrain.invoked

\* The message_count stored for a session id, 0 when nothing is stored.
stored_message_count(sessions, session_id) ==
    IF sessions[session_id] = <<>> THEN 0 ELSE sessions[session_id][1].message_count

\* C29: every process_message call that returns normally adds one to the
\* stored message_count of its session and sets the lifetime of the entry
\* to 86400 seconds; the count never decreases and equals the number of
\* calls that returned normally, whatever the interleaving of the calls and
\* also when the read of the update fails.
C29_MessageCountCountsMessages ==
    [][\A i \in ChatSessionIds :
          /\ chat_completed'[i] = chat_completed[i] + 1 =>
                /\ chat_sessions'[i] # <<>>
                /\ stored_message_count(chat_sessions', i)
                       = stored_message_count(chat_sessions, i) + 1
                /\ chat_sessions'[i][1].ttl = SessionTTL
          /\ stored_message_count(chat_sessions', i)
                 >= stored_message_count(chat_sessions, i)
          /\ stored_message_count(chat_sessions', i) = chat_completed'[i]
      ]_vars

====
